---- MODULE Spec2Model ----
(***************************************************************************)
(* Model of the pure DatePicker widget of iced_aw                          *)
(* (src/src/pure/date_picker.rs): a wrapper around an underlay element     *)
(* that produces the date picker overlay when show_picker is set and       *)
(* otherwise delegates everything to the underlay.                         *)
(*                                                                         *)
(* The widget value (DatePicker) is rebuilt by the application on every    *)
(* view and diffed into a persistent widget Tree; the Tree holds the       *)
(* picker State and the underlay's child tree.                             *)
(***************************************************************************)
EXTENDS Integers, Sequences, FiniteSets, TLC

\* Dates are 0..MaxDate (the days the picker can hold).
MaxDate == 1
\* Layout origins range over 0..MaxPos.
MaxPos == 1

Dates == 0..MaxDate
\* Widths and heights of a layout's bounds; odd and even, so that halving matters.
Sizes == {1, 2}

\* iced_native::Length, as far as the underlays here use it.
Lengths == {"Fill", "Shrink"}
\* The kinds of underlay element: their widget tags.
Kinds == {"button", "pick_list"}
\* The element the DatePicker wraps (field underlay).
\* A pick list has no height of its own choosing: it always shrinks.
Underlays ==
    {u \in [kind : Kinds, width : Lengths, height : Lengths] :
        u.kind = "pick_list" => u.height = "Shrink"}

\* Application messages: on_cancel, the underlay's own message, on_submit(d).
CancelMessages == {"Cancel", "Close"}
SubmitFns == {"Submit", "Pick"}
UnderlayMessage == "Open"
NoMessage == "-"
\* on_submit is a function Date -> Message: applying f to d.
ApplySubmit(f, d) == <<f, d>>

\* iced_native events, as far as the underlays distinguish them.
Events == {"press", "release", "other"}

\* layout::Limits: the maximum size offered.
LimitsSet == [max_width : Sizes, max_height : Sizes]
\* Rectangle: the bounds of a Layout.
Bounds == [x : 0..MaxPos, y : 0..MaxPos, width : Sizes, height : Sizes]

VARIABLES
    widget,       \* the current DatePicker value (rebuilt by every view)
    tree,         \* the widget Tree: the picker State and children[0]
    callerState,  \* the date_picker::State the application holds (doc example)
    ov,           \* the overlay returned by the last overlay() call, while alive
    ret,          \* what the last call returned and published to the shell
    edited        \* the date state() created, and it with the overlay's edits applied

vars == <<widget, tree, callerState, ov, ret, edited>>

----------------------------------------------------------------------------
\* native::date_picker::State

\* State::now(): hidden, holding today's date d.
StateNow(d) == [show |-> FALSE, date |-> d]
\* State::show(b)
StateShow(s, b) == [s EXCEPT !.show = b]

----------------------------------------------------------------------------
\* The underlay element (host toolkit widgets behind Element::as_widget()).

UnderlayWidth(u) == u.width
UnderlayHeight(u) == u.height

\* The size an underlay takes under the limits: Fill takes all, Shrink its
\* intrinsic size 1 or what the limits leave of it.
Fit(len, max) == IF len = "Fill" THEN max ELSE IF max < 1 THEN max ELSE 1
UnderlayLayout(u, limits) ==
    [width |-> Fit(u.width, limits.max_width),
     height |-> Fit(u.height, limits.max_height)]

\* Tree::new(&underlay): its tag and fresh state (not pressed, not open).
UnderlayTree(u) == [tag |-> u.kind, flag |-> FALSE]

\* The underlay's on_event on its own tree: <<status, messages, new tree>>.
\* A button publishes its message on release after a press; a pick list
\* opens and closes on press.
UnderlayOnEvent(u, child, event) ==
    IF u.kind = "button"
    THEN IF event = "press"
         THEN <<"Captured", <<>>, [child EXCEPT !.flag = TRUE]>>
         ELSE IF event = "release" /\ child.flag
              THEN <<"Captured", <<UnderlayMessage>>, [child EXCEPT !.flag = FALSE]>>
              ELSE <<"Ignored", <<>>, child>>
    ELSE IF event = "press"
         THEN <<"Captured", <<>>, [child EXCEPT !.flag = ~child.flag]>>
         ELSE <<"Ignored", <<>>, child>>

\* The underlay's overlay(): an open pick list has a menu, nothing else has one.
UnderlayOverlay(u, child) ==
    IF u.kind = "pick_list" /\ child.flag THEN "Menu" ELSE "None"

----------------------------------------------------------------------------
\* DatePicker

\* DatePicker::new(show_picker, underlay, on_cancel, on_submit)
New(show_picker, underlay, on_cancel, on_submit) ==
    [show_picker |-> show_picker, underlay |-> underlay,
     on_cancel |-> on_cancel, on_submit |-> on_submit]

Widgets ==
    {New(s, u, c, f) : s \in BOOLEAN, u \in Underlays,
                       c \in CancelMessages, f \in SubmitFns}

\* Widget::state(): tree::State::new(State::now())
state(d) == StateNow(d)
\* Widget::children(): vec![Tree::new(&self.underlay)]
children(w) == <<UnderlayTree(w.underlay)>>
\* Tree::new(widget): the tag is Tag::of::<State>().
TreeNew(w, d) == [tag |-> "State", state |-> state(d), children |-> children(w)]

\* A diff that builds the picker State anew, as Tree::new would.
diffResetsState(w, t) ==
    [t EXCEPT !.state = StateNow(0),
              !.children =
                  IF t.children[1].tag = w.underlay.kind
                  THEN t.children
                  ELSE <<UnderlayTree(w.underlay)>>]

\* Widget::diff: tree.diff_children(from_ref(&self.underlay)); a child whose
\* tag is the new underlay's keeps its state, any other is built anew.
diff(w, t) ==
    [t EXCEPT !.children =
        IF t.children[1].tag = w.underlay.kind
        THEN t.children
        ELSE <<UnderlayTree(w.underlay)>>]

\* Widget::width
width(w) == UnderlayWidth(w.underlay)
\* Widget::height
height(w) == UnderlayWidth(w.underlay)
\* Widget::layout
layout(w, limits) == UnderlayLayout(w.underlay, limits)

\* Points hold coordinates in half units (f32 halves are exact):
\* Rectangle::center_x is x + width / 2.0, here 2 * x + width.
CenterX(b) == 2 * b.x + b.width
CenterY(b) == 2 * b.y + b.height
Point(x2, y2) == [x2 |-> x2, y2 |-> y2]

NoPoint == Point(0 - 1, 0 - 1)
NoBounds == [x |-> 0 - 1, y |-> 0 - 1, width |-> 0, height |-> 0]

\* No overlay is alive.
Dropped ==
    [kind |-> "Dropped", bounds |-> NoBounds, position |-> NoPoint,
     on_cancel |-> NoMessage, on_submit |-> NoMessage]

\* DatePickerOverlay::new(picker_state, on_cancel, on_submit, position, ..).overlay()
DatePickerOverlay(b, on_cancel, on_submit, position) ==
    [kind |-> "Picker", bounds |-> b, position |-> position,
     on_cancel |-> on_cancel, on_submit |-> on_submit]

\* An overlay that lets the underlay's own overlay go first.
overlayUnderlayFirst(w, t, b) ==
    IF ~w.show_picker \/ UnderlayOverlay(w.underlay, t.children[1]) # "None"
    THEN [Dropped EXCEPT !.kind = UnderlayOverlay(w.underlay, t.children[1])]
    ELSE DatePickerOverlay(b, w.on_cancel, w.on_submit,
                           Point(CenterX(b), CenterY(b)))

\* An overlay that hands the underlay's message over as the cancel message.
overlayWrongCancel(w, t, b) ==
    IF ~w.show_picker
    THEN [Dropped EXCEPT !.kind = UnderlayOverlay(w.underlay, t.children[1])]
    ELSE DatePickerOverlay(b, UnderlayMessage, w.on_submit,
                           Point(CenterX(b), CenterY(b)))

\* An overlay placed at the top left corner of the bounds.
overlayTopLeft(w, t, b) ==
    IF ~w.show_picker
    THEN [Dropped EXCEPT !.kind = UnderlayOverlay(w.underlay, t.children[1])]
    ELSE DatePickerOverlay(b, w.on_cancel, w.on_submit,
                           Point(2 * b.x, 2 * b.y))

\* Widget::overlay: the underlay's overlay unless show_picker.
overlay(w, t, b) ==
    IF ~w.show_picker
    THEN [Dropped EXCEPT !.kind = UnderlayOverlay(w.underlay, t.children[1])]
    ELSE DatePickerOverlay(b, w.on_cancel, w.on_submit,
                           Point(CenterX(b), CenterY(b)))

\* The return value of a call that returns nothing of interest.
NoRet ==
    [op |-> "none", prev |-> "none", event |-> "-", length |-> "-",
     node |-> [width |-> 0, height |-> 0],
     limits |-> [max_width |-> 0, max_height |-> 0],
     status |-> "-", messages |-> <<>>]

----------------------------------------------------------------------------
Init ==
    /\ widget \in Widgets
    /\ \E d \in Dates :
        /\ tree = TreeNew(widget, d)
        /\ edited = [created |-> d, date |-> d]
    /\ \E d \in Dates, b \in BOOLEAN : callerState = StateShow(StateNow(d), b)
    /\ ov = Dropped
    /\ ret = NoRet

\* An update and a view of the application: it may call state.show(b) on the
\* State it holds, then builds a new DatePicker, which is diffed into the tree.
View ==
    /\ ov.kind = "Dropped"
    /\ \E b \in BOOLEAN : callerState' = StateShow(callerState, b)
    /\ \E w \in Widgets :
        /\ widget' = w
        /\ tree' = diff(w, tree)
    /\ ret' = [NoRet EXCEPT !.op = "view"]
    /\ UNCHANGED <<ov, edited>>

WidthCall ==
    /\ ret' = [NoRet EXCEPT !.op = "width", !.length = width(widget)]
    /\ UNCHANGED <<widget, tree, callerState, ov, edited>>

HeightCall ==
    /\ ret' = [NoRet EXCEPT !.op = "height", !.length = height(widget)]
    /\ UNCHANGED <<widget, tree, callerState, ov, edited>>

LayoutCall ==
    /\ \E limits \in LimitsSet :
        ret' = [NoRet EXCEPT !.op = "layout", !.limits = limits,
                             !.node = layout(widget, limits)]
    /\ UNCHANGED <<widget, tree, callerState, ov, edited>>

\* An on_event that captures every event while the picker is shown.
on_eventCaptures ==
    /\ ov.kind = "Dropped"
    /\ \E event \in Events :
        LET r == UnderlayOnEvent(widget.underlay, tree.children[1], event)
        IN /\ tree' = [tree EXCEPT !.children = <<r[3]>>]
           /\ ret' = [NoRet EXCEPT !.op = "on_event", !.event = event,
                                   !.status = IF widget.show_picker
                                              THEN "Captured" ELSE r[1],
                                   !.messages = r[2]]
    /\ UNCHANGED <<widget, callerState, ov, edited>>

\* An on_event that opens the picker when the underlay captures a press.
on_eventOpens ==
    /\ ov.kind = "Dropped"
    /\ \E event \in Events :
        LET r == UnderlayOnEvent(widget.underlay, tree.children[1], event)
        IN /\ tree' = [tree EXCEPT !.children = <<r[3]>>]
           /\ ret' = [NoRet EXCEPT !.op = "on_event", !.event = event,
                                   !.status = r[1], !.messages = r[2]]
           /\ widget' = [widget EXCEPT !.show_picker = @ \/ event = "press"]
    /\ UNCHANGED <<callerState, ov, edited>>

\* Widget::on_event: forwarded to the underlay with children[0].
on_event ==
    /\ ov.kind = "Dropped"
    /\ \E event \in Events :
        LET r == UnderlayOnEvent(widget.underlay, tree.children[1], event)
        IN /\ tree' = [tree EXCEPT !.children = <<r[3]>>]
           /\ ret' = [NoRet EXCEPT !.op = "on_event", !.event = event,
                                   !.status = r[1], !.messages = r[2]]
    /\ UNCHANGED <<widget, callerState, ov, edited>>

\* Widget::overlay with the layout's bounds b; prev remembers a press on
\* cancel or submit right before the call.
OverlayCall ==
    /\ ov.kind = "Dropped"
    /\ \E b \in Bounds : ov' = overlay(widget, tree, b)
    /\ ret' = [NoRet EXCEPT !.op = "overlay",
                            !.prev = IF ret.op \in {"cancel", "submit"}
                                     THEN ret.op ELSE "none"]
    /\ UNCHANGED <<widget, tree, callerState, edited>>

\* The overlay goes out of scope.
DropOverlay ==
    /\ ov.kind # "Dropped"
    /\ ov' = Dropped
    /\ UNCHANGED <<widget, tree, callerState, ret, edited>>

\* The cancel button of the date picker overlay is pressed.
PressCancel ==
    /\ ov.kind = "Picker"
    /\ ret' = [NoRet EXCEPT !.op = "cancel", !.status = "Captured",
                            !.messages = <<ov.on_cancel>>]
    /\ UNCHANGED <<widget, tree, callerState, ov, edited>>

\* The submit button of the date picker overlay is pressed.
PressSubmit ==
    /\ ov.kind = "Picker"
    /\ ret' = [NoRet EXCEPT !.op = "submit", !.status = "Captured",
                            !.messages = <<ApplySubmit(ov.on_submit, tree.state.date)>>]
    /\ UNCHANGED <<widget, tree, callerState, ov, edited>>

\* A day is picked in the date picker overlay: it edits the picker State.
PickDate ==
    /\ ov.kind = "Picker"
    /\ \E d \in Dates :
        /\ tree' = [tree EXCEPT !.state.date = d]
        /\ edited' = [edited EXCEPT !.date = d]
    /\ ret' = [NoRet EXCEPT !.op = "pick", !.status = "Captured"]
    /\ UNCHANGED <<widget, callerState, ov>>

Next ==
    \/ View
    \/ on_event
    \/ OverlayCall
    \/ DropOverlay
    \/ PressCancel
    \/ PressSubmit
    \/ PickDate

Spec == Init /\ [][Next]_vars

\* The layout pass alone: views, and the three layout queries on the widget.
NextLayout ==
    \/ View
    \/ WidthCall
    \/ HeightCall
    \/ LayoutCall

SpecLayout == Init /\ [][NextLayout]_vars

----------------------------------------------------------------------------
\* C1: overlay() yields the date picker overlay exactly when show_picker is
\* set, whatever overlay the underlay has; without show_picker the result is
\* what the underlay's overlay() yields for children[0], None included.
C1_OverlayIffShowPicker ==
    ov.kind # "Dropped" =>
        IF widget.show_picker
        THEN ov.kind = "Picker"
        ELSE /\ ov.kind = UnderlayOverlay(widget.underlay, tree.children[1])
             /\ ov.kind # "Picker"

\* The picker overlay is returned although the underlay has a menu to show.
C1_Witness ==
    /\ ov.kind = "Picker"
    /\ UnderlayOverlay(widget.underlay, tree.children[1]) = "Menu"

\* C2: a press on cancel publishes exactly the on_cancel given to new, a press
\* on submit exactly on_submit(d) for the date d the picker State holds.
C2_CancelSubmitMessages ==
    /\ ret.op = "cancel" => ret.messages = <<widget.on_cancel>>
    /\ ret.op = "submit" =>
           ret.messages = <<ApplySubmit(widget.on_submit, tree.state.date)>>

\* Submit is pressed after the date was edited away from the created one.
C2_Witness ==
    /\ ret.op = "submit"
    /\ ov.kind = "Picker"
    /\ tree.state.date # edited.created

\* C3: the State the caller holds is the one the picker uses: after
\* state.show(true) the widget built next is shown, and the overlay edits
\* the caller's State.
C3_CallerStateIsPickerState ==
    /\ (ov.kind # "Dropped" /\ callerState.show) => ov.kind = "Picker"
    /\ ov.kind = "Picker" => callerState.date = tree.state.date

\* C4: width, height and layout are the underlay's.
C4_LayoutDelegated ==
    /\ ret.op = "width" => ret.length = UnderlayWidth(widget.underlay)
    /\ ret.op = "height" => ret.length = UnderlayHeight(widget.underlay)
    /\ ret.op = "layout" =>
           ret.node = UnderlayLayout(widget.underlay, ret.limits)

\* C5: the tree's picker State is the one state() created with exactly the
\* overlay's edits applied, whatever widgets were diffed in; the tree keeps
\* its tag and its single child.
C5_StateSurvivesDiff ==
    /\ tree.tag = "State"
    /\ Len(tree.children) = 1
    /\ tree.state = [StateNow(edited.created) EXCEPT !.date = edited.date]

\* A hidden picker was diffed in after an edit, and the edited date is kept.
C5_Witness ==
    /\ ret.op = "view"
    /\ ~widget.show_picker
    /\ edited.date # edited.created
    /\ tree.state.date = edited.date

\* C6: on_event hands the event to the underlay with children[0], returns
\* the underlay's status, publishes the underlay's messages and nothing else,
\* and leaves the picker State and show_picker alone.
C6_OnEventForwarded ==
    [][ret'.op = "on_event" =>
          LET r == UnderlayOnEvent(widget.underlay, tree.children[1], ret'.event)
          IN /\ ret'.status = r[1]
             /\ ret'.messages = r[2]
             /\ tree'.children = <<r[3]>>
             /\ tree'.state = tree.state
             /\ widget' = widget
             /\ ov' = ov]_vars

\* The underlay's button published its message while the picker is shown.
C6_Witness ==
    /\ ret.op = "on_event"
    /\ ret.messages = <<UnderlayMessage>>
    /\ widget.show_picker

\* C7: the position of the date picker overlay is the centre of the
\* layout's bounds, (x + width/2, y + height/2), here in half units.
C7_PositionIsCentre ==
    ov.kind = "Picker" =>
        /\ ov.position.x2 - 2 * ov.bounds.x = ov.bounds.width
        /\ ov.position.y2 - 2 * ov.bounds.y = ov.bounds.height

\* A picker overlay over bounds of odd width away from the origin.
C7_Witness ==
    /\ ov.kind = "Picker"
    /\ ov.bounds.x = 1 /\ ov.bounds.y = 0
    /\ ov.bounds.width = 1 /\ ov.bounds.height = 2

\* C8: only a view changes show_picker, and every overlay() call yields the
\* date picker overlay exactly when the widget last diffed in has show_picker.
C8_OnlyViewChangesShowPicker ==
    [][/\ ret'.op # "view" => widget'.show_picker = widget.show_picker
       /\ (ov.kind = "Dropped" /\ ov'.kind # "Dropped") =>
              ((ov'.kind = "Picker") <=> widget.show_picker)]_vars

\* overlay() is called again after cancel was pressed and yields the picker.
C8_Witness ==
    /\ ret.op = "overlay"
    /\ ret.prev = "cancel"
    /\ ov.kind = "Picker"

====
